---- MODULE Spec2Model ----
(***************************************************************************)
(* A model of src/app.py: the scrape run of scrape_businesses, the         *)
(* BusinessList store (add_business, save_to_csv, dataframe) and the pure  *)
(* helpers used while a focused listing is read.                           *)
(*                                                                         *)
(* Text is a sequence of tokens.  In the texts the code parses (the rating *)
(* label, the review count, the URL, the listing label) digits, '.', ',',  *)
(* '-', '+', '_', '/', '@', every whitespace character and the visited     *)
(* suffix are tokens of their own, and so is every letter of a            *)
(* comma-separated field of the URL; every other token is a run of         *)
(* characters that holds none of them.  A whitespace character that has no *)
(* escape in a string, and a decimal digit that is not an ASCII one, is     *)
(* written by its code point, as in "U+00A0".  What a read of the page     *)
(* gives is a record: Str(t) for the text t, NoneVal for None, ABSENT when *)
(* the element is not in the page.  No text is NoneVal or ABSENT.          *)
(***************************************************************************)
EXTENDS Integers, Sequences, FiniteSets, TLC

\* ------------------------------------------------------------- bounds
MaxCats == 2
MaxQuota == 2
MaxPanel == 2

\* --------------------------------------------------------------- text
\* a text, as a value a read returns or a field holds
Str(t) == [kind |-> "str", text |-> t]
\* None
NoneVal == [kind |-> "None", text |-> <<>>]
\* no value: the read raises TimeoutError
ABSENT == [kind |-> "TimeoutError", text |-> <<>>]
Blank == " "
VisitedSuffix == " · Visited link"
\* the characters \d matches and int() and float() read as digits: the 660
\* decimal digits of Unicode 14.0.  DigitsOf[k + 1] holds the digits of
\* value k.
DigitsOf ==
  <<
    {"0", "U+0660", "U+06F0", "U+07C0", "U+0966", "U+09E6", "U+0A66",
     "U+0AE6", "U+0B66", "U+0BE6", "U+0C66", "U+0CE6", "U+0D66", "U+0DE6",
     "U+0E50", "U+0ED0", "U+0F20", "U+1040", "U+1090", "U+17E0", "U+1810",
     "U+1946", "U+19D0", "U+1A80", "U+1A90", "U+1B50", "U+1BB0", "U+1C40",
     "U+1C50", "U+A620", "U+A8D0", "U+A900", "U+A9D0", "U+A9F0", "U+AA50",
     "U+ABF0", "U+FF10", "U+104A0", "U+10D30", "U+11066", "U+110F0",
     "U+11136", "U+111D0", "U+112F0", "U+11450", "U+114D0", "U+11650",
     "U+116C0", "U+11730", "U+118E0", "U+11950", "U+11C50", "U+11D50",
     "U+11DA0", "U+16A60", "U+16AC0", "U+16B50", "U+1D7CE", "U+1D7D8",
     "U+1D7E2", "U+1D7EC", "U+1D7F6", "U+1E140", "U+1E2F0", "U+1E950",
     "U+1FBF0"},
    {"1", "U+0661", "U+06F1", "U+07C1", "U+0967", "U+09E7", "U+0A67",
     "U+0AE7", "U+0B67", "U+0BE7", "U+0C67", "U+0CE7", "U+0D67", "U+0DE7",
     "U+0E51", "U+0ED1", "U+0F21", "U+1041", "U+1091", "U+17E1", "U+1811",
     "U+1947", "U+19D1", "U+1A81", "U+1A91", "U+1B51", "U+1BB1", "U+1C41",
     "U+1C51", "U+A621", "U+A8D1", "U+A901", "U+A9D1", "U+A9F1", "U+AA51",
     "U+ABF1", "U+FF11", "U+104A1", "U+10D31", "U+11067", "U+110F1",
     "U+11137", "U+111D1", "U+112F1", "U+11451", "U+114D1", "U+11651",
     "U+116C1", "U+11731", "U+118E1", "U+11951", "U+11C51", "U+11D51",
     "U+11DA1", "U+16A61", "U+16AC1", "U+16B51", "U+1D7CF", "U+1D7D9",
     "U+1D7E3", "U+1D7ED", "U+1D7F7", "U+1E141", "U+1E2F1", "U+1E951",
     "U+1FBF1"},
    {"2", "U+0662", "U+06F2", "U+07C2", "U+0968", "U+09E8", "U+0A68",
     "U+0AE8", "U+0B68", "U+0BE8", "U+0C68", "U+0CE8", "U+0D68", "U+0DE8",
     "U+0E52", "U+0ED2", "U+0F22", "U+1042", "U+1092", "U+17E2", "U+1812",
     "U+1948", "U+19D2", "U+1A82", "U+1A92", "U+1B52", "U+1BB2", "U+1C42",
     "U+1C52", "U+A622", "U+A8D2", "U+A902", "U+A9D2", "U+A9F2", "U+AA52",
     "U+ABF2", "U+FF12", "U+104A2", "U+10D32", "U+11068", "U+110F2",
     "U+11138", "U+111D2", "U+112F2", "U+11452", "U+114D2", "U+11652",
     "U+116C2", "U+11732", "U+118E2", "U+11952", "U+11C52", "U+11D52",
     "U+11DA2", "U+16A62", "U+16AC2", "U+16B52", "U+1D7D0", "U+1D7DA",
     "U+1D7E4", "U+1D7EE", "U+1D7F8", "U+1E142", "U+1E2F2", "U+1E952",
     "U+1FBF2"},
    {"3", "U+0663", "U+06F3", "U+07C3", "U+0969", "U+09E9", "U+0A69",
     "U+0AE9", "U+0B69", "U+0BE9", "U+0C69", "U+0CE9", "U+0D69", "U+0DE9",
     "U+0E53", "U+0ED3", "U+0F23", "U+1043", "U+1093", "U+17E3", "U+1813",
     "U+1949", "U+19D3", "U+1A83", "U+1A93", "U+1B53", "U+1BB3", "U+1C43",
     "U+1C53", "U+A623", "U+A8D3", "U+A903", "U+A9D3", "U+A9F3", "U+AA53",
     "U+ABF3", "U+FF13", "U+104A3", "U+10D33", "U+11069", "U+110F3",
     "U+11139", "U+111D3", "U+112F3", "U+11453", "U+114D3", "U+11653",
     "U+116C3", "U+11733", "U+118E3", "U+11953", "U+11C53", "U+11D53",
     "U+11DA3", "U+16A63", "U+16AC3", "U+16B53", "U+1D7D1", "U+1D7DB",
     "U+1D7E5", "U+1D7EF", "U+1D7F9", "U+1E143", "U+1E2F3", "U+1E953",
     "U+1FBF3"},
    {"4", "U+0664", "U+06F4", "U+07C4", "U+096A", "U+09EA", "U+0A6A",
     "U+0AEA", "U+0B6A", "U+0BEA", "U+0C6A", "U+0CEA", "U+0D6A", "U+0DEA",
     "U+0E54", "U+0ED4", "U+0F24", "U+1044", "U+1094", "U+17E4", "U+1814",
     "U+194A", "U+19D4", "U+1A84", "U+1A94", "U+1B54", "U+1BB4", "U+1C44",
     "U+1C54", "U+A624", "U+A8D4", "U+A904", "U+A9D4", "U+A9F4", "U+AA54",
     "U+ABF4", "U+FF14", "U+104A4", "U+10D34", "U+1106A", "U+110F4",
     "U+1113A", "U+111D4", "U+112F4", "U+11454", "U+114D4", "U+11654",
     "U+116C4", "U+11734", "U+118E4", "U+11954", "U+11C54", "U+11D54",
     "U+11DA4", "U+16A64", "U+16AC4", "U+16B54", "U+1D7D2", "U+1D7DC",
     "U+1D7E6", "U+1D7F0", "U+1D7FA", "U+1E144", "U+1E2F4", "U+1E954",
     "U+1FBF4"},
    {"5", "U+0665", "U+06F5", "U+07C5", "U+096B", "U+09EB", "U+0A6B",
     "U+0AEB", "U+0B6B", "U+0BEB", "U+0C6B", "U+0CEB", "U+0D6B", "U+0DEB",
     "U+0E55", "U+0ED5", "U+0F25", "U+1045", "U+1095", "U+17E5", "U+1815",
     "U+194B", "U+19D5", "U+1A85", "U+1A95", "U+1B55", "U+1BB5", "U+1C45",
     "U+1C55", "U+A625", "U+A8D5", "U+A905", "U+A9D5", "U+A9F5", "U+AA55",
     "U+ABF5", "U+FF15", "U+104A5", "U+10D35", "U+1106B", "U+110F5",
     "U+1113B", "U+111D5", "U+112F5", "U+11455", "U+114D5", "U+11655",
     "U+116C5", "U+11735", "U+118E5", "U+11955", "U+11C55", "U+11D55",
     "U+11DA5", "U+16A65", "U+16AC5", "U+16B55", "U+1D7D3", "U+1D7DD",
     "U+1D7E7", "U+1D7F1", "U+1D7FB", "U+1E145", "U+1E2F5", "U+1E955",
     "U+1FBF5"},
    {"6", "U+0666", "U+06F6", "U+07C6", "U+096C", "U+09EC", "U+0A6C",
     "U+0AEC", "U+0B6C", "U+0BEC", "U+0C6C", "U+0CEC", "U+0D6C", "U+0DEC",
     "U+0E56", "U+0ED6", "U+0F26", "U+1046", "U+1096", "U+17E6", "U+1816",
     "U+194C", "U+19D6", "U+1A86", "U+1A96", "U+1B56", "U+1BB6", "U+1C46",
     "U+1C56", "U+A626", "U+A8D6", "U+A906", "U+A9D6", "U+A9F6", "U+AA56",
     "U+ABF6", "U+FF16", "U+104A6", "U+10D36", "U+1106C", "U+110F6",
     "U+1113C", "U+111D6", "U+112F6", "U+11456", "U+114D6", "U+11656",
     "U+116C6", "U+11736", "U+118E6", "U+11956", "U+11C56", "U+11D56",
     "U+11DA6", "U+16A66", "U+16AC6", "U+16B56", "U+1D7D4", "U+1D7DE",
     "U+1D7E8", "U+1D7F2", "U+1D7FC", "U+1E146", "U+1E2F6", "U+1E956",
     "U+1FBF6"},
    {"7", "U+0667", "U+06F7", "U+07C7", "U+096D", "U+09ED", "U+0A6D",
     "U+0AED", "U+0B6D", "U+0BED", "U+0C6D", "U+0CED", "U+0D6D", "U+0DED",
     "U+0E57", "U+0ED7", "U+0F27", "U+1047", "U+1097", "U+17E7", "U+1817",
     "U+194D", "U+19D7", "U+1A87", "U+1A97", "U+1B57", "U+1BB7", "U+1C47",
     "U+1C57", "U+A627", "U+A8D7", "U+A907", "U+A9D7", "U+A9F7", "U+AA57",
     "U+ABF7", "U+FF17", "U+104A7", "U+10D37", "U+1106D", "U+110F7",
     "U+1113D", "U+111D7", "U+112F7", "U+11457", "U+114D7", "U+11657",
     "U+116C7", "U+11737", "U+118E7", "U+11957", "U+11C57", "U+11D57",
     "U+11DA7", "U+16A67", "U+16AC7", "U+16B57", "U+1D7D5", "U+1D7DF",
     "U+1D7E9", "U+1D7F3", "U+1D7FD", "U+1E147", "U+1E2F7", "U+1E957",
     "U+1FBF7"},
    {"8", "U+0668", "U+06F8", "U+07C8", "U+096E", "U+09EE", "U+0A6E",
     "U+0AEE", "U+0B6E", "U+0BEE", "U+0C6E", "U+0CEE", "U+0D6E", "U+0DEE",
     "U+0E58", "U+0ED8", "U+0F28", "U+1048", "U+1098", "U+17E8", "U+1818",
     "U+194E", "U+19D8", "U+1A88", "U+1A98", "U+1B58", "U+1BB8", "U+1C48",
     "U+1C58", "U+A628", "U+A8D8", "U+A908", "U+A9D8", "U+A9F8", "U+AA58",
     "U+ABF8", "U+FF18", "U+104A8", "U+10D38", "U+1106E", "U+110F8",
     "U+1113E", "U+111D8", "U+112F8", "U+11458", "U+114D8", "U+11658",
     "U+116C8", "U+11738", "U+118E8", "U+11958", "U+11C58", "U+11D58",
     "U+11DA8", "U+16A68", "U+16AC8", "U+16B58", "U+1D7D6", "U+1D7E0",
     "U+1D7EA", "U+1D7F4", "U+1D7FE", "U+1E148", "U+1E2F8", "U+1E958",
     "U+1FBF8"},
    {"9", "U+0669", "U+06F9", "U+07C9", "U+096F", "U+09EF", "U+0A6F",
     "U+0AEF", "U+0B6F", "U+0BEF", "U+0C6F", "U+0CEF", "U+0D6F", "U+0DEF",
     "U+0E59", "U+0ED9", "U+0F29", "U+1049", "U+1099", "U+17E9", "U+1819",
     "U+194F", "U+19D9", "U+1A89", "U+1A99", "U+1B59", "U+1BB9", "U+1C49",
     "U+1C59", "U+A629", "U+A8D9", "U+A909", "U+A9D9", "U+A9F9", "U+AA59",
     "U+ABF9", "U+FF19", "U+104A9", "U+10D39", "U+1106F", "U+110F9",
     "U+1113F", "U+111D9", "U+112F9", "U+11459", "U+114D9", "U+11659",
     "U+116C9", "U+11739", "U+118E9", "U+11959", "U+11C59", "U+11D59",
     "U+11DA9", "U+16A69", "U+16AC9", "U+16B59", "U+1D7D7", "U+1D7E1",
     "U+1D7EB", "U+1D7F5", "U+1D7FF", "U+1E149", "U+1E2F9", "U+1E959",
     "U+1FBF9"}
  >>

Digits == UNION {DigitsOf[k] : k \in 1..10}

DigitVal(c) == (CHOOSE k \in 1..10 : c \in DigitsOf[k]) - 1

\* bool(x) of a text or None
Truthy(x) == x.kind = "str" /\ x.text # <<>>

\* Python's `x or d`
OrElse(x, d) == IF Truthy(x) THEN x ELSE d

\* str.replace(tok, "")
RemoveTok(s, tok) == SelectSeq(s, LAMBDA x : x # tok)

\* str.replace(a, b), one token for one token
ReplaceTok(s, a, b) == [i \in 1..Len(s) |-> IF s[i] = a THEN b ELSE s[i]]

\* the characters str.strip() removes: those for which str.isspace() holds
Whitespace ==
  {Blank, "\t", "\n", "\r", "\f", "U+000B", "U+001C", "U+001D", "U+001E", "U+001F",
   "U+0085", "U+00A0", "U+1680", "U+2000", "U+2001", "U+2002", "U+2003", "U+2004",
   "U+2005", "U+2006", "U+2007", "U+2008", "U+2009", "U+200A", "U+2028", "U+2029",
   "U+202F", "U+205F", "U+3000"}

\* the characters float() removes around its text: the four separators
\* U+001C..U+001F are not among them
FloatWhitespace == Whitespace \ {"U+001C", "U+001D", "U+001E", "U+001F"}

RECURSIVE LStripOf(_, _)
LStripOf(s, chars) == IF s # <<>> /\ Head(s) \in chars THEN LStripOf(Tail(s), chars) ELSE s

RECURSIVE RStripOf(_, _)
RStripOf(s, chars) ==
  IF s # <<>> /\ s[Len(s)] \in chars THEN RStripOf(SubSeq(s, 1, Len(s) - 1), chars) ELSE s

\* str.lstrip(), str.rstrip(), str.strip()
LStrip(s) == LStripOf(s, Whitespace)
RStrip(s) == RStripOf(s, Whitespace)
Strip(s) == RStrip(LStrip(s))

clean_business_name(name) == Strip(RemoveTok(name, VisitedSuffix))

\* the length of the longest run of digits that starts at s[i]
DigitRun(s, i) ==
  IF i < 1 \/ i > Len(s) THEN 0
  ELSE IF \E j \in i..Len(s) : s[j] \notin Digits
  THEN (CHOOSE j \in i..Len(s) : s[j] \notin Digits /\ \A k \in i..(j - 1) : s[k] \in Digits) - i
  ELSE Len(s) - i + 1

RECURSIVE DigitsToInt(_)
DigitsToInt(s) ==
  IF s = <<>> THEN 0
  ELSE 10 * DigitsToInt(SubSeq(s, 1, Len(s) - 1)) + DigitVal(s[Len(s)])

RECURSIVE Pow10(_)
Pow10(k) == IF k = 0 THEN 1 ELSE 10 * Pow10(k - 1)

\* A float is None, nan, an infinity (n is its sign), a subnormal double
\* (n is its sign, ulps the digits of its multiple of 2^-1074) or the decimal
\* n * 10^e with n not a multiple of ten (zero is n = 0, e = 0), which stands
\* for the double nearest to it: from 2^-1022 up, decimals of up to fifteen
\* digits are different doubles when they are different.  -0.0 is zero, as
\* it is for ==.
NoneFloat == [none |-> TRUE, special |-> "", n |-> 0, e |-> 0, ulps |-> <<>>]
NaN == [none |-> FALSE, special |-> "nan", n |-> 0, e |-> 0, ulps |-> <<>>]
Inf(sign) == [none |-> FALSE, special |-> "inf", n |-> sign, e |-> 0, ulps |-> <<>>]
Zero == [none |-> FALSE, special |-> "", n |-> 0, e |-> 0, ulps |-> <<>>]

Abs(n) == IF n < 0 THEN -n ELSE n

RECURSIVE NumDigits(_)
NumDigits(n) == IF n < 10 THEN 1 ELSE 1 + NumDigits(n \div 10)

\* digit i of d.ddd..., which goes on in zeros
DigitAt(d, i) == IF i <= Len(d) THEN d[i] ELSE 0

\* d.ddd... is below b.bbb..., both sequences of decimal digits
Below(d, bound) ==
  \E i \in 1..(Len(d) + Len(bound)) :
    /\ DigitAt(d, i) < DigitAt(bound, i)
    /\ \A j \in 1..(i - 1) : DigitAt(d, j) = DigitAt(bound, j)

\* the 309 digits of 2^1024 - 2^970 = 1.797693134862315807937...e308, half an
\* ulp above the largest double: from there on float() gives an infinity
OverflowDigits ==
  <<
   1, 7, 9, 7, 6, 9, 3, 1, 3, 4, 8, 6, 2, 3, 1, 5, 8, 0, 7, 9, 3, 7, 2, 8,
   9, 7, 1, 4, 0, 5, 3, 0, 3, 4, 1, 5, 0, 7, 9, 9, 3, 4, 1, 3, 2, 7, 1, 0,
   0, 3, 7, 8, 2, 6, 9, 3, 6, 1, 7, 3, 7, 7, 8, 9, 8, 0, 4, 4, 4, 9, 6, 8,
   2, 9, 2, 7, 6, 4, 7, 5, 0, 9, 4, 6, 6, 4, 9, 0, 1, 7, 9, 7, 7, 5, 8, 7,
   2, 0, 7, 0, 9, 6, 3, 3, 0, 2, 8, 6, 4, 1, 6, 6, 9, 2, 8, 8, 7, 9, 1, 0,
   9, 4, 6, 5, 5, 5, 5, 4, 7, 8, 5, 1, 9, 4, 0, 4, 0, 2, 6, 3, 0, 6, 5, 7,
   4, 8, 8, 6, 7, 1, 5, 0, 5, 8, 2, 0, 6, 8, 1, 9, 0, 8, 9, 0, 2, 0, 0, 0,
   7, 0, 8, 3, 8, 3, 6, 7, 6, 2, 7, 3, 8, 5, 4, 8, 4, 5, 8, 1, 7, 7, 1, 1,
   5, 3, 1, 7, 6, 4, 4, 7, 5, 7, 3, 0, 2, 7, 0, 0, 6, 9, 8, 5, 5, 5, 7, 1,
   3, 6, 6, 9, 5, 9, 6, 2, 2, 8, 4, 2, 9, 1, 4, 8, 1, 9, 8, 6, 0, 8, 3, 4,
   9, 3, 6, 4, 7, 5, 2, 9, 2, 7, 1, 9, 0, 7, 4, 1, 6, 8, 4, 4, 4, 3, 6, 5,
   5, 1, 0, 7, 0, 4, 3, 4, 2, 7, 1, 1, 5, 5, 9, 6, 9, 9, 5, 0, 8, 0, 9, 3,
   0, 4, 2, 8, 8, 0, 1, 7, 7, 9, 0, 4, 1, 7, 4, 4, 9, 7, 7, 9, 2
  >>

\* the 715 digits of 5^1022: 2^-1022 = 2.225073858507201383090...e-308, the
\* smallest normal double, is 5^1022 / 10^1022
MinNormalDigits ==
  <<
   2, 2, 2, 5, 0, 7, 3, 8, 5, 8, 5, 0, 7, 2, 0, 1, 3, 8, 3, 0, 9, 0, 2, 3,
   2, 7, 1, 7, 3, 3, 2, 4, 0, 4, 0, 6, 4, 2, 1, 9, 2, 1, 5, 9, 8, 0, 4, 6,
   2, 3, 3, 1, 8, 3, 0, 5, 5, 3, 3, 2, 7, 4, 1, 6, 8, 8, 7, 2, 0, 4, 4, 3,
   4, 8, 1, 3, 9, 1, 8, 1, 9, 5, 8, 5, 4, 2, 8, 3, 1, 5, 9, 0, 1, 2, 5, 1,
   1, 0, 2, 0, 5, 6, 4, 0, 6, 7, 3, 3, 9, 7, 3, 1, 0, 3, 5, 8, 1, 1, 0, 0,
   5, 1, 5, 2, 4, 3, 4, 1, 6, 1, 5, 5, 3, 4, 6, 0, 1, 0, 8, 8, 5, 6, 0, 1,
   2, 3, 8, 5, 3, 7, 7, 7, 1, 8, 8, 2, 1, 1, 3, 0, 7, 7, 7, 9, 9, 3, 5, 3,
   2, 0, 0, 2, 3, 3, 0, 4, 7, 9, 6, 1, 0, 1, 4, 7, 4, 4, 2, 5, 8, 3, 6, 3,
   6, 0, 7, 1, 9, 2, 1, 5, 6, 5, 0, 4, 6, 9, 4, 2, 5, 0, 3, 7, 3, 4, 2, 0,
   8, 3, 7, 5, 2, 5, 0, 8, 0, 6, 6, 5, 0, 6, 1, 6, 6, 5, 8, 1, 5, 8, 9, 4,
   8, 7, 2, 0, 4, 9, 1, 1, 7, 9, 9, 6, 8, 5, 9, 1, 6, 3, 9, 6, 4, 8, 5, 0,
   0, 6, 3, 5, 9, 0, 8, 7, 7, 0, 1, 1, 8, 3, 0, 4, 8, 7, 4, 7, 9, 9, 7, 8,
   0, 8, 8, 7, 7, 5, 3, 7, 4, 9, 9, 4, 9, 4, 5, 1, 5, 8, 0, 4, 5, 1, 6, 0,
   5, 0, 5, 0, 9, 1, 5, 3, 9, 9, 8, 5, 6, 5, 8, 2, 4, 7, 0, 8, 1, 8, 6, 4,
   5, 1, 1, 3, 5, 3, 7, 9, 3, 5, 8, 0, 4, 9, 9, 2, 1, 1, 5, 9, 8, 1, 0, 8,
   5, 7, 6, 6, 0, 5, 1, 9, 9, 2, 4, 3, 3, 3, 5, 2, 1, 1, 4, 3, 5, 2, 3, 9,
   0, 1, 4, 8, 7, 9, 5, 6, 9, 9, 6, 0, 9, 5, 9, 1, 2, 8, 8, 8, 9, 1, 6, 0,
   2, 9, 9, 2, 6, 4, 1, 5, 1, 1, 0, 6, 3, 4, 6, 6, 3, 1, 3, 3, 9, 3, 6, 6,
   3, 4, 7, 7, 5, 8, 6, 5, 1, 3, 0, 2, 9, 3, 7, 1, 7, 6, 2, 0, 4, 7, 3, 2,
   5, 6, 3, 1, 7, 8, 1, 4, 8, 5, 6, 6, 4, 3, 5, 0, 8, 7, 2, 1, 2, 2, 8, 2,
   8, 6, 3, 7, 6, 4, 2, 0, 4, 4, 8, 4, 6, 8, 1, 1, 4, 0, 7, 6, 1, 3, 9, 1,
   1, 4, 7, 7, 0, 6, 2, 8, 0, 1, 6, 8, 9, 8, 5, 3, 2, 4, 4, 1, 1, 0, 0, 2,
   4, 1, 6, 1, 4, 4, 7, 4, 2, 1, 6, 1, 8, 5, 6, 7, 1, 6, 6, 1, 5, 0, 5, 4,
   0, 1, 5, 4, 2, 8, 5, 0, 8, 4, 7, 1, 6, 7, 5, 2, 9, 0, 1, 9, 0, 3, 1, 6,
   1, 3, 2, 2, 7, 7, 8, 8, 9, 6, 7, 2, 9, 7, 0, 7, 3, 7, 3, 1, 2, 3, 3, 3,
   4, 0, 8, 6, 9, 8, 8, 9, 8, 3, 1, 7, 5, 0, 6, 7, 8, 3, 8, 8, 4, 6, 9, 2,
   6, 0, 9, 2, 7, 7, 3, 9, 7, 7, 9, 7, 2, 8, 5, 8, 6, 5, 9, 6, 5, 4, 9, 4,
   1, 0, 9, 1, 3, 6, 9, 0, 9, 5, 4, 0, 6, 1, 3, 6, 4, 6, 7, 5, 6, 8, 7, 0,
   2, 3, 9, 8, 6, 7, 8, 3, 1, 5, 2, 9, 0, 6, 8, 0, 9, 8, 4, 6, 1, 7, 2, 1,
   0, 9, 2, 4, 6, 2, 5, 3, 9, 6, 7, 2, 8, 5, 1, 5, 6, 2, 5
  >>

\* 2^52: the double 2^-1022 is 2^52 times 2^-1074
TwoTo52 == <<4, 5, 0, 3, 5, 9, 9, 6, 2, 7, 3, 7, 0, 4, 9, 6>>

\* long numbers are sequences of digits in a base, the first digit first
Limb == 10000

\* 2^1074 in base 10000
TwoTo1074 ==
  <<
   2024, 225, 3307, 3106, 1835, 2495, 3467, 1891, 7307, 495, 5664, 9764,
   1421, 1835, 6901, 3580, 2743, 339, 5679, 9534, 6891, 9603, 8370, 1437,
   1244, 9518, 7077, 8643, 1681, 1911, 3898, 873, 7385, 7934, 7686, 7013,
   3999, 4073, 8509, 9215, 1742, 4276, 5663, 6136, 4466, 9077, 4209, 3216,
   3412, 3976, 7678, 4727, 4506, 8562, 74, 8342, 4692, 6986, 1810, 3355,
   6491, 5955, 6340, 8100, 5651, 2358, 7695, 5233, 3414, 6152, 3050, 2532,
   1863, 2750, 8646, 62, 6330, 7707, 7410, 9349, 4784
  >>

Front(a) == IF a = <<>> THEN <<>> ELSE SubSeq(a, 1, Len(a) - 1)
Last(a) == IF a = <<>> THEN 0 ELSE a[Len(a)]

RECURSIVE StripZeros(_)
StripZeros(a) == IF a # <<>> /\ Head(a) = 0 THEN StripZeros(Tail(a)) ELSE a

\* the digits of a natural number in a base
RECURSIVE DigitsIn(_, _)
DigitsIn(n, base) ==
  IF n < base THEN <<n>> ELSE Append(DigitsIn(n \div base, base), n % base)

\* the carry into digit i of a + b: a digit after it overflows and every
\* digit between the two is filled
CarryInto(a, b, i, base) ==
  \E j \in (i + 1)..Len(a) :
    /\ a[j] + b[j] >= base
    /\ \A k \in (i + 1)..(j - 1) : a[k] + b[k] = base - 1

\* a + b of long numbers of one length, in as many digits (the sum has no
\* more)
Plus(a, b, base) ==
  [i \in 1..Len(a) |-> (a[i] + b[i] + IF CarryInto(a, b, i, base) THEN 1 ELSE 0) % base]

\* a * d of a long number a that starts with a zero and a digit d, in as many
\* digits: the low digits of the products plus their high digits, one place up
TimesDigit(a, d, base) ==
  Plus([i \in 1..Len(a) |-> (a[i] * d) % base],
       [i \in 1..Len(a) |-> IF i = Len(a) THEN 0 ELSE (a[i + 1] * d) \div base],
       base)

Zeros(k) == [i \in 1..k |-> 0]

\* a * b of long numbers, in as many digits as a has: a starts with as many
\* zeros as b has digits
RECURSIVE Times(_, _, _)
Times(a, b, base) ==
  IF b = <<>> THEN Zeros(Len(a))
  ELSE Plus(Append(Tail(Times(a, Front(b), base)), 0), TimesDigit(a, Last(b), base), base)

\* the decimal digits of a long number in base 10000
Decimal(a) ==
  [i \in 1..(4 * Len(a)) |-> (a[(i + 3) \div 4] \div Pow10(3 - ((i - 1) % 4))) % 10]

\* a / 10^m of decimal digits a is rounded up: its fraction is above a half,
\* or is a half and the whole part is odd
RoundsUp(a, m) ==
  /\ m >= 1 /\ Len(a) >= m
  /\ \/ a[Len(a) - m + 1] > 5
     \/ /\ a[Len(a) - m + 1] = 5
        /\ \/ \E i \in (Len(a) - m + 2)..Len(a) : a[i] # 0
           \/ Last(SubSeq(a, 1, Len(a) - m)) % 2 = 1

\* a / 10^m rounded to the nearest integer, a half to the even one
RoundHalfEven(a, m) ==
  StripZeros(Plus(<<0>> \o SubSeq(a, 1, Len(a) - m),
                  Append(Zeros(Len(a) - m), IF RoundsUp(a, m) THEN 1 ELSE 0), 10))

SubnormalOf(sign, k) ==
  IF k = <<>> THEN Zero
  ELSE [none |-> FALSE, special |-> "subnormal", n |-> sign, e |-> 0, ulps |-> k]

\* the multiple of 2^-1074 nearest to a * 10^-m (m > 0), a in base 10000, as
\* decimal digits: a * 2^1074 / 10^m rounded, a half to the even one
Ulps(a, m) ==
  RoundHalfEven(Decimal(Times(Zeros(Len(a)) \o TwoTo1074, a, Limb)), m)

\* the double of n * 10^e (e < 0) that is k times 2^-1074: a subnormal one,
\* zero, or 2^-1022 for a decimal less than half a step under it
Subnormal(n, e, k) ==
  IF k = TwoTo52 THEN [none |-> FALSE, special |-> "", n |-> n, e |-> e, ulps |-> <<>>]
  ELSE SubnormalOf(IF n < 0 THEN -1 ELSE 1, k)

\* the double of n * 10^e, n not a multiple of ten and top the exponent of
\* its first digit
RoundedAt(n, e, top) ==
  IF top > 308 \/ (top = 308 /\ ~Below(DigitsIn(Abs(n), 10), OverflowDigits))
  THEN Inf(IF n < 0 THEN -1 ELSE 1)
  ELSE IF top < -324
  THEN Zero
  ELSE IF top < -308 \/ (top = -308 /\ Below(DigitsIn(Abs(n), 10), MinNormalDigits))
  THEN Subnormal(n, e, Ulps(DigitsIn(Abs(n), Limb), -e))
  ELSE [none |-> FALSE, special |-> "", n |-> n, e |-> e, ulps |-> <<>>]

Rounded(n, e) == RoundedAt(n, e, e + NumDigits(Abs(n)) - 1)

RECURSIVE Dec(_, _)
Dec(n, e) ==
  IF n = 0 THEN Zero
  ELSE IF n % 10 = 0 THEN Dec(n \div 10, e + 1)
  ELSE Rounded(n, e)

RECURSIVE Log10(_)
Log10(d) == IF d <= 1 THEN 0 ELSE 1 + Log10(d \div 10)

\* the float n / d, d a power of ten
Float(n, d) == Dec(n, -Log10(d))

\* the first index of s that holds a digit, 0 when there is none
FirstDigit(s) ==
  IF \E i \in 1..Len(s) : s[i] \in Digits
  THEN CHOOSE i \in 1..Len(s) : s[i] \in Digits /\ \A j \in 1..(i - 1) : s[j] \notin Digits
  ELSE 0

\* re.search(r'(\d+\.\d+|\d+)', s) and float(match.group(1)); NoneFloat when
\* nothing matches
SearchDecimal(s) ==
  LET i == FirstDigit(s)
      r == DigitRun(s, i)
      k == IF i + r <= Len(s) /\ s[i + r] = "." THEN DigitRun(s, i + r + 1) ELSE 0
  IN  IF i = 0 THEN NoneFloat
      ELSE IF k > 0
           THEN Float(DigitsToInt(SubSeq(s, i, i + r - 1)) * Pow10(k)
                        + DigitsToInt(SubSeq(s, i + r + 1, i + r + k)), Pow10(k))
           ELSE Float(DigitsToInt(SubSeq(s, i, i + r - 1)), 1)

\* what re.search(r'(\d+)', s) matches; <<>> when nothing matches
MatchedDigits(s) ==
  IF FirstDigit(s) = 0 THEN <<>>
  ELSE SubSeq(s, FirstDigit(s), FirstDigit(s) + DigitRun(s, FirstDigit(s)) - 1)

\* int() of a text of more digits than this raises ValueError
\* (sys.int_info.default_max_str_digits)
MaxStrDigits == 4300

IntRaises(digits) == Len(digits) > MaxStrDigits

\* re.search(r'(\d+)', s) and int(match.group(1)); -1 when nothing matches
SearchInteger(s) ==
  IF MatchedDigits(s) = <<>> THEN -1 ELSE DigitsToInt(MatchedDigits(s))

\* the first index at which sep occurs in s, 0 when it does not
FindSep(s, sep) ==
  LET hits == {i \in 1..(Len(s) - Len(sep) + 1) : SubSeq(s, i, i + Len(sep) - 1) = sep}
  IN  IF hits = {} THEN 0 ELSE CHOOSE i \in hits : \A j \in hits : i <= j

\* str.split(sep)
RECURSIVE Split(_, _)
Split(s, sep) ==
  LET i == FindSep(s, sep)
  IN  IF i = 0 THEN <<s>>
      ELSE <<SubSeq(s, 1, i - 1)>> \o Split(SubSeq(s, i + Len(sep), Len(s)), sep)

\* the length of the longest digit part that starts at s[i]: digits, with
\* single underscores between digits
RECURSIVE DigitPart(_, _)
DigitPart(s, i) ==
  LET r == DigitRun(s, i)
  IN  IF r > 0 /\ i + r + 1 <= Len(s) /\ s[i + r] = "_" /\ s[i + r + 1] \in Digits
      THEN r + 1 + DigitPart(s, i + r + 1)
      ELSE r

\* a letter of 'infinity' or 'nan' in lower case
Lower(c) ==
  CASE c = "I" -> "i" [] c = "N" -> "n" [] c = "F" -> "f" [] c = "T" -> "t"
    [] c = "Y" -> "y" [] c = "A" -> "a" [] OTHER -> c

\* the zeros that end a run of digits
RECURSIVE TrailingZeros(_)
TrailingZeros(s) ==
  IF s # <<>> /\ DigitVal(s[Len(s)]) = 0 THEN 1 + TrailingZeros(SubSeq(s, 1, Len(s) - 1)) ELSE 0

\* a text without its sign
Unsigned(t) == IF t # <<>> /\ t[1] \in {"-", "+"} THEN Tail(t) ELSE t

\* the float of the digits of a decimal, `places` of them after the point,
\* times ten to the exponent
DecimalValue(sign, digits, places, exponent) ==
  Dec(sign * DigitsToInt(SubSeq(digits, 1, Len(digits) - TrailingZeros(digits))),
      exponent - places + TrailingZeros(digits))

\* float(text) of a body whose whole part has w characters, whose point and
\* fraction have p, and whose exponent digits are the x characters from es
\* (es = 0: no exponent): ValueError unless there is a digit in the decimal,
\* the exponent has one, and the body ends there
ParseValue(body, sign, w, p, es, x) ==
  IF /\ w > 0 \/ p > 1
     /\ IF es = 0 THEN w + p = Len(body) ELSE x > 0 /\ es + x - 1 = Len(body)
  THEN [ok |-> TRUE,
        val |-> DecimalValue(
                  sign,
                  RemoveTok(SubSeq(body, 1, w) \o SubSeq(body, w + 2, w + p), "_"),
                  Len(RemoveTok(SubSeq(body, w + 2, w + p), "_")),
                  IF es = 0 THEN 0
                  ELSE (IF body[es - 1] = "-" THEN -1 ELSE 1)
                         * DigitsToInt(RemoveTok(SubSeq(body, es, es + x - 1), "_")))]
  ELSE [ok |-> FALSE, val |-> NoneFloat]

ParseExponent(body, sign, w, p, es) ==
  ParseValue(body, sign, w, p, es, IF es = 0 THEN 0 ELSE DigitPart(body, es))

\* the exponent starts after 'e' or 'E' and an optional sign
ParseFraction(body, sign, w, p) ==
  ParseExponent(body, sign, w, p,
    IF w + p < Len(body) /\ body[w + p + 1] \in {"e", "E"}
    THEN (IF w + p + 1 < Len(body) /\ body[w + p + 2] \in {"-", "+"}
          THEN w + p + 3 ELSE w + p + 2)
    ELSE 0)

\* the point and the digit part after it
ParseWhole(body, sign, w) ==
  ParseFraction(body, sign, w,
    IF w < Len(body) /\ body[w + 1] = "." THEN 1 + DigitPart(body, w + 2) ELSE 0)

Lowered(body) == [i \in 1..Len(body) |-> Lower(body[i])]

\* 'inf', 'infinity' or 'nan' in any case, or a decimal with an optional
\* exponent
ParseBody(body, sign) ==
  IF Lowered(body) \in {<<"i", "n", "f">>, <<"i", "n", "f", "i", "n", "i", "t", "y">>}
  THEN [ok |-> TRUE, val |-> Inf(sign)]
  ELSE IF Lowered(body) = <<"n", "a", "n">>
  THEN [ok |-> TRUE, val |-> NaN]
  ELSE ParseWhole(body, sign, DigitPart(body, 1))

ParseSigned(s) == ParseBody(Unsigned(s), IF s # <<>> /\ Head(s) = "-" THEN -1 ELSE 1)

\* float(text): [ok |-> FALSE] stands for ValueError.  The text is stripped;
\* then comes an optional sign and the body.
ParseFloat(text) == ParseSigned(RStripOf(LStripOf(text, FloatWhitespace), FloatWhitespace))

\* a variant that returns the two numbers the other way round
extract_coordinates_swapped(url) ==
  LET afterAt == Split(url, <<"/", "@">>)
      coordinates == Split(afterAt[Len(afterAt)], <<"/">>)[1]
      parts == Split(coordinates, <<",">>)
      lat == ParseFloat(parts[1])
      lng == IF Len(parts) >= 2 THEN ParseFloat(parts[2]) ELSE [ok |-> FALSE, val |-> NoneFloat]
  IN  IF lat.ok /\ lng.ok THEN <<lng.val, lat.val>> ELSE <<NoneFloat, NoneFloat>>

\* lines 65-71: the segment after the last "/@" up to the next "/", its first
\* two comma-separated fields through float(); IndexError and ValueError give
\* (None, None)
extract_coordinates_from_url(url) ==
  LET afterAt == Split(url, <<"/", "@">>)
      coordinates == Split(afterAt[Len(afterAt)], <<"/">>)[1]
      parts == Split(coordinates, <<",">>)
      lat == ParseFloat(parts[1])
      lng == IF Len(parts) >= 2 THEN ParseFloat(parts[2]) ELSE [ok |-> FALSE, val |-> NoneFloat]
  IN  IF lat.ok /\ lng.ok THEN <<lat.val, lng.val>> ELSE <<NoneFloat, NoneFloat>>

\* ------------------------------------------------------ the page driver
\* What the driver reads once a listing is focused: the listing's aria-label,
\* the inner text of the address, website and phone blocks, the rating's
\* aria-label, the review count's text and the page URL.  A read of an
\* element that is not in the page raises TimeoutError (ABSENT); a read that
\* finds nothing to return gives None or the empty text.
UrlPrefix == <<"https:", "/", "/", "maps", "/", "place", "/">>

DomTable ==
  << [aria |-> Str(<<"Gym A", VisitedSuffix>>), address |-> Str(<<"1 Main St">>),
      website |-> Str(<<"gym-a.example">>), phone |-> Str(<<"555-0100">>),
      rating |-> Str(<<"4", ",", "5", " stars">>),
      reviews |-> Str(<<"(", "1", ",", "2", "3", "4", ")">>),
      url |-> UrlPrefix \o <<"GymA", "/", "@", "4", "0", ".", "7", ",", "-", "7", "4", ".", "0", ",", "1", "5", "z", "/", "data">>],
     [aria |-> Str(<<" ", "Gym A">>), address |-> Str(<<"1 Main St">>),
      website |-> Str(<<>>), phone |-> Str(<<"555-0100">>),
      rating |-> NoneVal, reviews |-> Str(<<>>),
      url |-> UrlPrefix \o <<"GymA">>],
     [aria |-> NoneVal, address |-> Str(<<>>), website |-> Str(<<"gym-b.example">>),
      phone |-> Str(<<>>), rating |-> Str(<<"No reviews">>),
      reviews |-> Str(<<"U+0661", "U+0662", " reviews">>),
      url |-> UrlPrefix \o <<"X", "/", "@", "4", "0", ",", "1", "5", "z">>],
     [aria |-> Str(<<"Gym C">>), address |-> ABSENT, website |-> Str(<<"gym-c.example">>),
      phone |-> Str(<<"555-0102">>), rating |-> Str(<<"3", " stars">>),
      reviews |-> Str(<<"7">>),
      url |-> UrlPrefix \o <<"GymC", "/", "@", "1", ",", "2">>],
     [aria |-> Str(<<"Gym D">>), address |-> Str(<<"4 Main St">>),
      website |-> Str(<<"gym-d.example">>), phone |-> Str(<<"555-0103">>),
      rating |-> Str(<<"5", " stars">>),
      reviews |-> Str([i \in 1..(MaxStrDigits + 1) |-> "9"] \o <<" reviews">>),
      url |-> UrlPrefix \o <<"GymD", "/", "@", "1", ",", "2">>] >>

ListingIds == 1..Len(DomTable)
Dom(l) == DomTable[l]

\* ------------------------------------------------------------ Business
Business ==
  [name |-> NoneVal, address |-> Str(<<"No Address">>), website |-> Str(<<"No Website">>),
   phone_number |-> Str(<<"No Phone">>), reviews_count |-> 0,
   reviews_average |-> Float(0, 1), latitude |-> NoneFloat, longitude |-> NoneFloat]

\* a read of the detail panel that raises: the element is not in the page
ReadRaises(dom) ==
  ABSENT \in {dom.aria, dom.address, dom.website, dom.phone, dom.rating, dom.reviews}

\* the line of the first read that raises
RaisingLine(dom) ==
  IF dom.aria = ABSENT THEN 129
  ELSE IF dom.address = ABSENT THEN 130
  ELSE IF dom.website = ABSENT THEN 131
  ELSE IF dom.phone = ABSENT THEN 132
  ELSE IF dom.rating = ABSENT THEN 134
  ELSE 139

\* line 142: every read returned and int() raises on the matched digits
ConvertRaises(dom) ==
  /\ ~ReadRaises(dom)
  /\ Truthy(dom.reviews)
  /\ IntRaises(MatchedDigits(RemoveTok(dom.reviews.text, ",")))

NoError == [exc |-> "", line |-> 0]
TimeoutError(line) == [exc |-> "TimeoutError", line |-> line]
ValueError(line) == [exc |-> "ValueError", line |-> line]

\* the exception lines 129-144 raise on a focused listing
ExceptionOf(dom) ==
  IF ReadRaises(dom) THEN TimeoutError(RaisingLine(dom))
  ELSE IF ConvertRaises(dom) THEN ValueError(142)
  ELSE NoError

\* the exception each listing of the table raises, computed once
Raised == [l \in ListingIds |-> ExceptionOf(Dom(l))]

\* the record built from a focused listing, when nothing raises
ExtractListing(dom) ==
  LET avg == SearchDecimal(ReplaceTok(dom.rating.text, ",", "."))
      cnt == SearchInteger(RemoveTok(dom.reviews.text, ","))
      coords == extract_coordinates_from_url(dom.url)
  IN  [Business EXCEPT
         !.name = Str(clean_business_name(OrElse(dom.aria, Str(<<"Unknown">>)).text)),
         !.address = OrElse(dom.address, Str(<<"No Address">>)),
         !.website = OrElse(dom.website, Str(<<"No Website">>)),
         !.phone_number = OrElse(dom.phone, Str(<<"No Phone">>)),
         !.reviews_average =
            IF Truthy(dom.rating)
            THEN (IF avg.none THEN Float(0, 1) ELSE avg)
            ELSE Business.reviews_average,
         !.reviews_count =
            IF Truthy(dom.reviews)
            THEN (IF cnt < 0 THEN 0 ELSE cnt)
            ELSE Business.reviews_count,
         !.latitude = coords[1],
         !.longitude = coords[2]]

\* the record each listing of the table gives, computed once
Extracted ==
  [l \in ListingIds |-> IF Raised[l] # NoError THEN Business ELSE ExtractListing(Dom(l))]

\* -------------------------------------------------------- BusinessList
BusinessList == [business_list |-> <<>>, seen_businesses |-> {}]

\* a key that also looks at the website
unique_key_with_website(business) ==
  <<business.name, business.address, business.website, business.phone_number>>

unique_key(business) == <<business.name, business.address, business.phone_number>>

IsNew(store, business) == unique_key(business) \notin store.seen_businesses

\* an add_business that appends the record whether or not its key is known
add_business_always_appends(store, business) ==
  [ret |-> IsNew(store, business),
   store |-> [store EXCEPT
                !.seen_businesses = @ \cup {unique_key(business)},
                !.business_list = Append(@, business)]]

\* add_business: the store after the call, and what the call returns
add_business(store, business) ==
  IF IsNew(store, business)
  THEN [ret |-> TRUE,
        store |-> [store EXCEPT
                     !.seen_businesses = @ \cup {unique_key(business)},
                     !.business_list = Append(@, business)]]
  ELSE [ret |-> FALSE, store |-> store]

Columns ==
  <<"name", "address", "website", "phone_number", "reviews_count",
    "reviews_average", "latitude", "longitude">>

asdict(business) == [c \in {Columns[i] : i \in 1..Len(Columns)} |-> business[c]]

\* dataframe: json_normalize of no record at all is a frame with no column
dataframe(store) ==
  IF store.business_list = <<>>
  THEN [columns |-> <<>>, rows |-> <<>>]
  ELSE [columns |-> Columns,
        rows |-> [i \in 1..Len(store.business_list) |-> asdict(store.business_list[i])]]

\* to_csv(file_path, mode, header): mode 'w' truncates, 'a' appends
to_csv(f, df, mode, header) ==
  LET base == IF mode = "w" \/ ~f.exists THEN [exists |-> TRUE, headers |-> 0, rows |-> <<>>] ELSE f
  IN  [base EXCEPT !.headers = IF header THEN @ + 1 ELSE @,
                   !.rows = @ \o df.rows]

\* a save that writes the header on every call
save_to_csv_with_header(f, store, append) ==
  to_csv(f, dataframe(store), IF append THEN "a" ELSE "w", TRUE)

save_to_csv(f, store, append) ==
  LET mode == IF append THEN "a" ELSE "w"
  IN  IF append /\ f.exists
      THEN to_csv(f, dataframe(store), mode, FALSE)
      ELSE to_csv(f, dataframe(store), mode, TRUE)

\* ------------------------------------------------------------ the run
business_types ==
  <<"Real Estate companies", "Charity/Non-Profits", "Portfolio sites for Instagram artists",
    "Local Restaurant chains", "Personal Injury Law Firms", "Independent insurance sites",
    "Landscaping/Fertilizer", "Painting", "Power Washing", "Car Wash", "Axe Throwing",
    "Gun Ranges/Stores", "Currency Exchanges/Check Cashing",
    "Construction Materials Companies", "Gyms", "Salons with multiple locations",
    "Eyebrow Microblading", "Estheticians", "Orthodontists", "Used Car dealerships",
    "Clothing Brand", "Cut & Sew", "Embroidery">>

Locations == {<<"Austin", "TX">>, <<"Dallas", "TX">>}

SeqsUpTo(S, n) == UNION {[1..k -> S] : k \in 0..n}

\* the location lists of at most two rows, up to the renaming of the cities:
\* no row, one row, two different rows, the same row twice
LocationLists ==
  {l \in SeqsUpTo(Locations, Cardinality(Locations)) : l = <<>> \/ l[1] = <<"Austin", "TX">>}

\* the contents a results panel can have
Panels == SeqsUpTo(ListingIds, MaxPanel)

VARIABLES
  selected_business_types,  \* the operator's categories
  num_listings,             \* the per-category quota
  cities_states,            \* the operator's location list
  business_list,            \* the BusinessList of the run
  total_listings,
  progress,
  cat,                      \* how many categories the for loop has started
  listings_scraped,
  cities_states_copy,
  selected,                 \* (selected_city, selected_state) of the current search
  panel,                    \* the result anchors of the current search, in order
  listings,                 \* the locators enumerated at line 120
  idx,                      \* the position of the for loop over listings
  file,                     \* output/Scraped_results.csv
  result,                   \* what scrape_businesses returns
  pc,
  accepted,                 \* the records add_business returned True for, in order
  drawn,                    \* the locations drawn for the current category, in order
  stagnant,                 \* consecutive scrolls of this search that added no anchor (0, 1, 2 or more)
  error,                    \* the exception that left scrape_businesses, and its line
  progress_events,          \* the calls of progress_bar.progress, as (progress, total_listings)
  status_text,              \* the kind of the last status_text.text message
  writes,                   \* how many times to_csv was called
  focused,                  \* the positions of the panel clicked during the current search
  call                      \* a call of extract_coordinates_from_url: its url and what it returned

vars ==
  <<selected_business_types, num_listings, cities_states, business_list,
    total_listings, progress, cat, listings_scraped, cities_states_copy, selected,
    panel, listings, idx, file, result, pc, accepted, drawn, stagnant, error,
    progress_events, status_text, writes, focused, call>>

fixed == <<selected_business_types, num_listings, total_listings, call>>
inputs == <<fixed, cities_states>>
store == <<business_list, progress, accepted, error, progress_events, writes>>
page == <<panel, listings, idx, stagnant, focused>>
explorer == <<cities_states_copy, selected, drawn>>


\* extract_coordinates_from_url is not being called
NoCall == [url |-> <<>>, returned |-> FALSE, coordinates |-> <<NoneFloat, NoneFloat>>]

NoFile == [exists |-> FALSE, headers |-> 0, rows |-> <<>>]
OldFile == [exists |-> TRUE, headers |-> 1, rows |-> <<>>]

Init ==
  /\ \E n \in 0..MaxCats : selected_business_types = SubSeq(business_types, 1, n)
  /\ num_listings \in 1..MaxQuota
  /\ cities_states \in LocationLists
  /\ business_list = BusinessList
  /\ total_listings = Len(selected_business_types) * num_listings
  /\ progress = 0
  /\ cat = 0
  /\ listings_scraped = 0
  /\ cities_states_copy = <<>>
  /\ selected = <<>>
  /\ panel = <<>>
  /\ listings = <<>>
  /\ idx = 0
  /\ file \in {NoFile, OldFile}
  /\ result = dataframe(BusinessList)
  /\ pc = "for_category"
  /\ accepted = <<>>
  /\ drawn = <<>>
  /\ stagnant = 0
  /\ error = NoError
  /\ progress_events = <<>>
  /\ status_text = ""
  /\ writes = 0
  /\ focused = {}
  /\ call = NoCall

\* list.copy()
Copy(l) == l

\* a removal by position from the end, whatever was drawn
RemoveLast(l, x) == SubSeq(l, 1, Len(l) - 1)

\* list.remove(x): the first occurrence goes
Remove(l, x) ==
  LET i == CHOOSE i \in 1..Len(l) : l[i] = x /\ \A j \in 1..(i - 1) : l[j] # x
  IN  SubSeq(l, 1, i - 1) \o SubSeq(l, i + 1, Len(l))

\* a quota test that lets one more record in
QuotaUnmetOffByOne(scraped, quota) == scraped <= quota

QuotaUnmet(scraped, quota) == scraped < quota

\* lines 93-96: the for loop takes the next category
StartCategory ==
  /\ pc = "for_category"
  /\ cat < Len(selected_business_types)
  /\ cat' = cat + 1
  /\ listings_scraped' = 0
  /\ cities_states_copy' = Copy(cities_states)
  /\ drawn' = <<>>
  /\ pc' = "while_locations"
  /\ UNCHANGED <<inputs, store, page, selected, file, result, status_text>>

\* line 98: the test of the while loop
MoreLocations(scraped, quota, pool) == QuotaUnmet(scraped, quota) /\ pool # <<>>

\* a pool that is the argument itself: what is removed from one is gone from
\* the other
ArgumentOfSharedPool(arg, pool) == pool

\* lines 96, 100: the pool is a copy, a removal from it leaves the argument alone
ArgumentOfCopiedPool(arg, pool) == arg

\* lines 98-102: the while loop draws a location
DrawLocation ==
  /\ pc = "while_locations"
  /\ MoreLocations(listings_scraped, num_listings, cities_states_copy)
  /\ \E i \in 1..Len(cities_states_copy) :
       /\ selected' = cities_states_copy[i]
       /\ cities_states_copy' = Remove(cities_states_copy, cities_states_copy[i])
       /\ drawn' = Append(drawn, cities_states_copy[i])
  /\ cities_states' = ArgumentOfCopiedPool(cities_states, cities_states_copy')
  /\ status_text' = "Searching"
  /\ panel' = <<>>
  /\ focused' = {}
  /\ pc' = "search"
  /\ UNCHANGED <<fixed, store, listings, idx, stagnant, cat, listings_scraped, file, result>>

\* line 98: the while loop ends
EndLocations ==
  /\ pc = "while_locations"
  /\ ~MoreLocations(listings_scraped, num_listings, cities_states_copy)
  /\ panel' = <<>>
  /\ stagnant' = 0
  /\ focused' = {}
  /\ pc' = "flush"
  /\ UNCHANGED <<inputs, store, listings, idx, explorer, cat, listings_scraped, file, result, status_text>>

\* lines 104-112: goto or a wait_for_selector times out, the search is skipped
SearchTimeout ==
  /\ pc = "search"
  /\ status_text' = "Timeout"
  /\ pc' = "while_locations"
  /\ UNCHANGED <<inputs, store, page, explorer, cat, listings_scraped, file, result>>

\* lines 104-117: the search succeeds and the panel holds no result anchor
SearchNoResults ==
  /\ pc = "search"
  /\ panel' = <<>>
  /\ stagnant' = 0
  /\ status_text' = "No results"
  /\ pc' = "while_locations"
  /\ UNCHANGED <<inputs, store, listings, idx, focused, explorer, cat, listings_scraped, file, result>>

\* lines 104-117: the search succeeds and the panel holds result anchors
SearchResults ==
  /\ pc = "search"
  /\ \E p \in Panels \ {<<>>} : panel' = p
  /\ stagnant' = 0
  /\ pc' = "while_harvest"
  /\ UNCHANGED <<inputs, store, listings, idx, focused, explorer, cat, listings_scraped, file, result, status_text>>

\* lines 119-120: the harvest loop enumerates the panel
Enumerate ==
  /\ pc = "while_harvest"
  /\ QuotaUnmet(listings_scraped, num_listings)
  /\ listings' = panel
  /\ idx' = 1
  /\ pc' = "for_listing"
  /\ UNCHANGED <<inputs, store, panel, stagnant, focused, explorer, cat, listings_scraped, file, result, status_text>>

\* line 119: the harvest loop ends on the quota
EndHarvest ==
  /\ pc = "while_harvest"
  /\ ~QuotaUnmet(listings_scraped, num_listings)
  /\ pc' = "while_locations"
  /\ UNCHANGED <<inputs, store, page, explorer, cat, listings_scraped, file, result, status_text>>

\* lines 121-123: the for loop is out of listings, or breaks on the quota
EndListings ==
  /\ pc = "for_listing"
  /\ idx > Len(listings) \/ ~QuotaUnmet(listings_scraped, num_listings)
  /\ listings' = <<>>
  /\ idx' = 0
  /\ pc' = "scroll"
  /\ UNCHANGED <<inputs, store, panel, stagnant, focused, explorer, cat, listings_scraped, file, result, status_text>>

\* an exception leaves the function: the loop's locals die, the browser closes
Unwind == panel' = <<>> /\ listings' = <<>> /\ idx' = 0 /\ stagnant' = 0 /\ focused' = {}

\* line 125: the click times out; nothing catches the TimeoutError
ClickTimeout ==
  /\ pc = "for_listing"
  /\ idx <= Len(listings) /\ QuotaUnmet(listings_scraped, num_listings)
  /\ Unwind
  /\ error' = TimeoutError(125)
  /\ pc' = "raised"
  /\ UNCHANGED <<inputs, business_list, progress, accepted, progress_events, writes, explorer, cat,
                 listings_scraped, file, result, status_text>>

\* lines 125-139: a read of the detail panel times out; nothing catches it
ReadTimeout ==
  /\ pc = "for_listing"
  /\ idx <= Len(listings) /\ QuotaUnmet(listings_scraped, num_listings)
  /\ Raised[panel[idx]].exc = "TimeoutError"
  /\ Unwind
  /\ error' = Raised[panel[idx]]
  /\ pc' = "raised"
  /\ UNCHANGED <<inputs, business_list, progress, accepted, progress_events, writes, explorer, cat,
                 listings_scraped, file, result, status_text>>

\* line 142: int() raises ValueError on the review count; nothing catches it
ConvertError ==
  /\ pc = "for_listing"
  /\ idx <= Len(listings) /\ QuotaUnmet(listings_scraped, num_listings)
  /\ Raised[panel[idx]].exc = "ValueError"
  /\ Unwind
  /\ error' = Raised[panel[idx]]
  /\ pc' = "raised"
  /\ UNCHANGED <<inputs, business_list, progress, accepted, progress_events, writes, explorer, cat,
                 listings_scraped, file, result, status_text>>

\* a counter that counts every listing offered
CountedAlways(n, added) == n + 1

\* a counter that is never raised
CountedNever(n, added) == n

\* lines 146-148: a counter after add_business returned `added`
Counted(n, added) == IF added THEN n + 1 ELSE n

\* lines 125-150: the listing is focused, read and offered to add_business
Harvest ==
  /\ pc = "for_listing"
  /\ idx <= Len(listings) /\ QuotaUnmet(listings_scraped, num_listings)
  /\ Raised[panel[idx]] = NoError
  /\ LET business == Extracted[panel[idx]]
         r == add_business(business_list, business)
     IN  /\ business_list' = r.store
         /\ listings_scraped' = Counted(listings_scraped, r.ret)
         /\ progress' = Counted(progress, r.ret)
         /\ progress_events' =
              IF r.ret THEN Append(progress_events, <<progress', total_listings>>)
              ELSE progress_events
         /\ status_text' = IF r.ret THEN "Scraped" ELSE status_text
         /\ accepted' = IF r.ret THEN Append(accepted, business) ELSE accepted
  /\ focused' = focused \cup {idx}
  /\ idx' = idx + 1
  /\ UNCHANGED <<inputs, panel, listings, stagnant, error, writes, explorer, cat, file, result, pc>>

\* lines 152-155: the panel is scrolled; the end-of-list text may show
Scroll ==
  /\ pc = "scroll"
  /\ \E more \in {m \in Panels : Len(panel) + Len(m) <= MaxPanel} :
       /\ panel' = panel \o more
       /\ stagnant' = IF more # <<>> THEN 0 ELSE IF stagnant < 2 THEN stagnant + 1 ELSE 2
  /\ \E end_visible \in BOOLEAN :
       pc' = IF end_visible THEN "while_locations" ELSE "while_harvest"
  /\ UNCHANGED <<inputs, store, listings, idx, focused, explorer, cat, listings_scraped, file, result, status_text>>

\* a clear that empties the identity set with the list
FlushStoreResetsSeen(f, st) ==
  [file |-> save_to_csv(f, st, TRUE),
   store |-> [st EXCEPT !.business_list = <<>>, !.seen_businesses = {}]]

\* save and clear, lines 158-159
FlushStore(f, st) ==
  [file |-> save_to_csv(f, st, TRUE), store |-> [st EXCEPT !.business_list = <<>>]]

\* a test that lets every category be saved
HasRecordsOrNot(st) == TRUE

\* line 157: `if business_list.business_list:`
HasRecords(st) == st.business_list # <<>>

\* lines 157-159: the category's records are saved and the list is cleared
Flush ==
  /\ pc = "flush"
  /\ IF HasRecords(business_list)
     THEN /\ file' = FlushStore(file, business_list).file
          /\ business_list' = FlushStore(file, business_list).store
          /\ writes' = writes + 1
     ELSE UNCHANGED <<file, business_list, writes>>
  /\ pc' = "for_category"
  /\ UNCHANGED <<inputs, progress, accepted, error, progress_events, page, explorer, cat,
                 listings_scraped, result, status_text>>

\* lines 161-162: the for loop is over; the frame of the list is returned
Return ==
  /\ pc = "for_category"
  /\ cat >= Len(selected_business_types)
  /\ result' = dataframe(business_list)
  /\ pc' = "done"
  /\ UNCHANGED <<inputs, store, page, explorer, cat, listings_scraped, file, status_text>>

Next ==
  \/ StartCategory
  \/ DrawLocation
  \/ EndLocations
  \/ SearchTimeout
  \/ SearchNoResults
  \/ SearchResults
  \/ Enumerate
  \/ EndHarvest
  \/ EndListings
  \/ ClickTimeout
  \/ ReadTimeout
  \/ ConvertError
  \/ Harvest
  \/ Scroll
  \/ Flush
  \/ Return

Spec == Init /\ [][Next]_vars

\* the run is one sequential program: while a step is possible, one is taken
FairSpec == Spec /\ WF_vars(Next)

\* ------------------------------------------------------------- claims
IdentityKey(b) == <<b.name, b.address, b.phone_number>>

Count(l, x) == Cardinality({i \in 1..Len(l) : l[i] = x})

Buffer == business_list.business_list
Seen == business_list.seen_businesses

InPagination == pc \in {"while_harvest", "for_listing", "scroll"}

\* the step that offers the listing at idx to add_business
HarvestStep == pc = "for_listing" /\ idx' = idx + 1

\* C1: over one run no two accepted records have the same identity key
\* (name, address, phone_number), whatever the category or location under
\* which they were met.
C1_NoTwoAcceptedShareKey ==
  \A i, j \in 1..Len(accepted) :
    i # j => IdentityKey(accepted[i]) # IdentityKey(accepted[j])

\* C1 witness: in the second category the first listing of the panel, another
\* record of the business accepted first, has been offered and not accepted.
C1_Witness ==
  /\ cat = 2 /\ pc = "for_listing" /\ idx = 2 /\ panel[1] = 2
  /\ accepted = <<Extracted[1]>>
  /\ listings_scraped = 0

\* C2: when scrape_businesses returns, the frame it returns holds exactly the
\* records add_business accepted during the run.
C2_ReturnsAllAccepted ==
  pc = "done" =>
    {result.rows[i] : i \in 1..Len(result.rows)}
      = {asdict(accepted[i]) : i \in 1..Len(accepted)}

\* C3: once two consecutive scrolls have added no listing, the pagination
\* loop of the search ends, even if the end-of-list text never shows.
C3_StagnationEndsPagination ==
  (InPagination /\ stagnant >= 2) ~> ~InPagination

\* C4: a driver timeout never ends the run: no TimeoutError leaves
\* scrape_businesses.
C4_TimeoutNeverAbortsRun == ~(pc = "raised" /\ error.exc = "TimeoutError")

\* C5: reading a focused listing never raises when a detail element is
\* absent: no read of lines 130-139 raises.
C5_ExtractNeverRaises == error.line \notin {129, 130, 131, 132, 134, 139}

\* C6: when the run has ended, every accepted record is in the file exactly
\* once.
C6_AcceptedWrittenOnce ==
  pc \in {"done", "raised"} =>
    \A i \in 1..Len(accepted) : Count(file.rows, asdict(accepted[i])) = 1

\* C7 as stated: within a category no location is drawn twice, for any
\* location list.
C7_NeverDrawsSameLocationTwice ==
  \A i, j \in 1..Len(drawn) : i # j => drawn[i] # drawn[j]

\* C7 as amended: within a category the draws and the remaining pool make up
\* the supplied list, so a location is drawn at most as many times as the list
\* holds it; the search loop ends with the quota unmet only on an empty pool,
\* and on an empty pool it ends.
C7_DrawsWithoutReplacement ==
  /\ [](cat >= 1 =>
          \A l \in Locations :
            Count(drawn, l) + Count(cities_states_copy, l) = Count(cities_states, l))
  /\ [](pc = "flush" /\ Len(Buffer) < num_listings => cities_states_copy = <<>>)
  /\ [][pc = "while_locations" /\ cities_states_copy = <<>> => pc' = "flush"]_vars

\* C7 witness: the list holds the same row twice and both rows were drawn for
\* one category.
C7_Witness ==
  /\ Len(cities_states) = 2 /\ cities_states[1] = cities_states[2]
  /\ drawn = cities_states /\ cities_states_copy = <<>>
  /\ pc = "flush" /\ Len(Buffer) < num_listings

\* C8: the records accepted for a category never outnumber the quota, the
\* counter of the loop is their number, and the category's search loop ends
\* only with the quota reached or the pool empty.
C8_QuotaRespected ==
  /\ Len(Buffer) <= num_listings
  /\ pc \in {"while_locations", "search", "while_harvest", "for_listing", "scroll", "flush"}
       => listings_scraped = Len(Buffer)
  /\ pc = "flush" => Len(Buffer) = num_listings \/ cities_states_copy = <<>>

\* C8 witness: a category ended on its quota of two with a location left.
C8_Witness ==
  /\ pc = "flush" /\ num_listings = 2 /\ Len(Buffer) = 2
  /\ cities_states_copy # <<>>

\* C9: a call of add_business with a key that is not in the identity set
\* returns True and adds the key and the record; a call with a key that is in
\* it returns False and leaves the identity set and the buffer as they were.
C9_AddBusinessIdempotent ==
  [][HarvestStep =>
       LET b == Extracted[panel[idx]]
           r == add_business(business_list, b)
       IN  /\ business_list' = r.store
           /\ r.ret <=> accepted' = Append(accepted, b)
           /\ IdentityKey(b) \notin Seen =>
                /\ r.ret
                /\ Seen' = Seen \cup {IdentityKey(b)}
                /\ Buffer' = Append(Buffer, b)
           /\ IdentityKey(b) \in Seen =>
                /\ ~r.ret
                /\ Seen' = Seen
                /\ Buffer' = Buffer
                /\ accepted' = accepted]_vars

\* C9 witness: one search offered the same listing twice: the first call
\* accepted it, the replay did not.
C9_Witness ==
  /\ pc = "for_listing" /\ idx = 3 /\ panel = <<1, 1>>
  /\ Buffer = <<Extracted[1]>> /\ listings_scraped = 1
  /\ Cardinality(Seen) = 1

\* C10: a key that is in the identity set stays in it: no step of the run,
\* the flush and the clear included, takes a key out.
C10_AdmissionMonotonic == [][Seen \subseteq Seen']_vars

\* C10 witness: a category was flushed and cleared and its keys are still in
\* the identity set.
C10_Witness ==
  /\ pc = "for_category" /\ cat >= 1
  /\ Buffer = <<>> /\ file.rows # <<>>
  /\ Seen = {IdentityKey(accepted[i]) : i \in 1..Len(accepted)}
  /\ Seen # {}

\* ------------------------------------ calls of extract_coordinates_from_url
\* The function is called on URLs of the place page followed by every text of
\* up to MaxUrlTail characters of UrlAlphabet, and on the longer ExampleUrls.
MaxUrlTail == 5

UrlAlphabet == {"4", ".", ",", "-", "e", "z", "/", "@"}

ExampleUrls ==
  {UrlPrefix \o t : t \in {
     <<"@", "4", "0", ".", "7", "1", "2", "8", ",", "-", "7", "4", ".", "0", "0", "6", "0", ",", "1", "5", "z">>,
     <<"G", "y", "m", "/", "@", "4", ".", "5", ",", "-", "7", ",", "1", "5", "z", "/", "d", "a", "t", "a">>,
     <<"@", "1", ",", "2", "/", "@", "3", ",", "-", ".", "5">>,
     <<"X", "/", "@", "1", "e", "2", ",", "5">>,
     <<"X", "/", "@", "1", "_", "0", ",", "2">>,
     <<"X", "/", "@", "n", "a", "n", ",", "i", "n", "f", ",", "1", "5", "z">>,
     <<"X", "/", "@", "U+0664", "U+0660", ".", "U+FF17", ",", "U+0967">>,
     <<"X", "/", "@", "1", "7", "9", "7", "6", "9", "3", "1", "3", "5", "e", "2", "9", "9", ",", "1">>,
     <<"X", "/", "@", "3", "e", "-", "3", "2", "4", ",", "5", "e", "-", "3", "2", "4">>,
     <<"X", "/", "@", "1", "7", "9", "7", "6", "9", "3", "1", "3", "4", "e", "2", "9", "9", ",",
       "2", "2", "2", "5", "0", "7", "3", "e", "-", "3", "1", "4">>}}

Urls == {UrlPrefix \o t : t \in SeqsUpTo(UrlAlphabet, MaxUrlTail)} \cup ExampleUrls

CallInit ==
  /\ selected_business_types = <<>>
  /\ num_listings = 1
  /\ cities_states = <<>>
  /\ business_list = BusinessList
  /\ total_listings = 0
  /\ progress = 0
  /\ cat = 0
  /\ listings_scraped = 0
  /\ cities_states_copy = <<>>
  /\ selected = <<>>
  /\ panel = <<>>
  /\ listings = <<>>
  /\ idx = 0
  /\ file = NoFile
  /\ result = dataframe(BusinessList)
  /\ pc = "call"
  /\ accepted = <<>>
  /\ drawn = <<>>
  /\ stagnant = 0
  /\ error = NoError
  /\ progress_events = <<>>
  /\ status_text = ""
  /\ writes = 0
  /\ focused = {}
  /\ call \in {[NoCall EXCEPT !.url = u] : u \in Urls}

\* lines 65-71: the function is called and returns
CallExtract ==
  /\ pc = "call" /\ ~call.returned
  /\ call' = [call EXCEPT !.returned = TRUE,
                          !.coordinates = extract_coordinates_from_url(call.url)]
  /\ UNCHANGED <<selected_business_types, num_listings, total_listings, cities_states,
                 store, page, explorer, cat, listings_scraped, file, result, pc, status_text>>

CallNext == CallExtract

CallSpec == CallInit /\ [][CallNext]_vars

\* C11: over any sequence of flushes to the destination file, the file of an
\* earlier run included, the header row is in the file exactly once: it is
\* written by the write that creates the file and by no later append.
C11_HeaderWrittenOnce ==
  /\ [](file.headers = IF file.exists THEN 1 ELSE 0)
  /\ [][/\ file'.headers # file.headers => ~file.exists /\ file'.exists /\ file'.headers = 1
        /\ writes' # writes /\ file.exists => file'.headers = file.headers]_vars

\* C11 witness: two categories were flushed and the file holds one header.
C11_Witness == writes = 2 /\ Len(file.rows) = 2 /\ file.headers = 1

\* C12: the progress count is one count over all categories: it is the number
\* of records accepted so far, every accepted record reports the next value
\* over the total quota, and it never passes the total quota, which is
\* the number of categories times the quota and is positive whenever a
\* fraction is computed.
C12_ProgressCountsAccepted ==
  /\ total_listings = Len(selected_business_types) * num_listings
  /\ progress = Len(accepted)
  /\ progress <= total_listings
  /\ Len(progress_events) = progress
  /\ \A i \in 1..Len(progress_events) :
       /\ progress_events[i] = <<i, total_listings>>
       /\ total_listings > 0 /\ i <= total_listings

\* C12 witness: in the second category the progress count stands at the total
\* quota of two while the category's own count is one.
C12_Witness ==
  /\ cat = 2 /\ listings_scraped = 1
  /\ progress = 2 /\ total_listings = 2
  /\ progress_events = <<(<<1, 2>>), (<<2, 2>>)>>

\* the identity keys of the listings of a panel that can be read
UniqueListings(p) ==
  {IdentityKey(Extracted[p[i]]) : i \in {k \in 1..Len(p) : Raised[p[k]] = NoError}}

\* one category, at least two locations, and one location drawn so far: the
\* panel is the first search's
FirstSearch ==
  /\ Len(selected_business_types) = 1 /\ Len(cities_states) >= 2
  /\ Len(drawn) = 1

\* the first search has yielded as many unique listings as the quota asks for
FirstSearchYieldsQuota ==
  FirstSearch /\ Cardinality(UniqueListings(panel)) >= num_listings

\* C13: with one category, quota q and at least two locations, once the panel
\* of the first search holds at least q unique listings the run raises
\* nothing and draws no second location; the search ends with exactly q
\* records accepted, the progress events 1/q .. q/q in order and the other
\* locations left in the pool, and these q records are what the flush
\* writes.
C13_FirstSearchMeetsQuota ==
  /\ [][FirstSearchYieldsQuota =>
          /\ pc' \notin {"raised", "search"}
          /\ pc' = "flush" =>
               /\ Len(accepted) = num_listings
               /\ progress_events = [i \in 1..num_listings |-> <<i, num_listings>>]
               /\ Len(cities_states_copy) = Len(cities_states) - 1]_vars
  /\ [](FirstSearch /\ pc \in {"for_category", "done"} =>
          file.rows = [i \in 1..Len(accepted) |-> asdict(accepted[i])])

\* the part of a category before its flush
BeforeFlush ==
  pc \in {"while_locations", "search", "while_harvest", "for_listing", "scroll", "flush", "raised"}

\* C14: the file is written at most once per category and only at the flush
\* that follows the category's harvest; a category with no accepted record
\* leaves the file and its header as they were; the buffer is empty when a
\* category starts.
C14_FlushOncePerCategory ==
  /\ [](/\ writes <= cat
        /\ BeforeFlush => writes < cat
        /\ pc = "for_category" => Buffer = <<>>
        /\ pc = "while_locations" /\ drawn = <<>> => Buffer = <<>>)
  /\ [][file' # file \/ writes' # writes =>
          pc = "flush" /\ Buffer # <<>> /\ Buffer' = <<>> /\ writes' = writes + 1]_vars

\* C14 witness: a category searched a location, accepted nothing, and passed
\* its flush with no file written.
C14_Witness ==
  /\ pc = "for_category" /\ cat = 1 /\ drawn # <<>>
  /\ accepted = <<>> /\ ~file.exists /\ writes = 0

\* the positions of a URL where "/@" starts
Markers(u) == {i \in 1..(Len(u) - 1) : u[i] = "/" /\ u[i + 1] = "@"}

\* the path segment after the last "/@": up to the next "/" or the end
AtSegment(u) ==
  LET m == CHOOSE i \in Markers(u) : \A j \in Markers(u) : j <= i
      stops == {j \in (m + 2)..Len(u) : u[j] = "/"}
      end == IF stops = {} THEN Len(u) ELSE (CHOOSE j \in stops : \A k \in stops : j <= k) - 1
  IN  SubSeq(u, m + 2, end)

Commas(seg) == {i \in 1..Len(seg) : seg[i] = ","}

\* the position of the k-th comma of a segment; 0 for k = 0, past the end
\* when the segment has fewer commas
CommaAt(seg, k) ==
  IF k = 0 THEN 0
  ELSE IF Cardinality(Commas(seg)) < k THEN Len(seg) + 1
  ELSE CHOOSE i \in Commas(seg) : Cardinality({j \in Commas(seg) : j <= i}) = k

\* the k-th comma-separated token of a segment
Token(seg, k) == SubSeq(seg, CommaAt(seg, k - 1) + 1, CommaAt(seg, k) - 1)

\* a token is numeric when float() reads it: a decimal with an optional
\* exponent (its digits any decimal digits, single underscores between them),
\* or inf, infinity or nan in any case, signed or not, white space around it
IsNumeric(t) == ParseFloat(t).ok

\* the float of a numeric token
NumericValue(t) == ParseFloat(t).val

\* what the claim says the function returns for a URL
CoordinatesOf(u) ==
  IF Markers(u) = {} THEN <<NoneFloat, NoneFloat>>
  ELSE LET seg == AtSegment(u)
       IN  IF Commas(seg) = {} THEN <<NoneFloat, NoneFloat>>
           ELSE IF ~IsNumeric(Token(seg, 1)) \/ ~IsNumeric(Token(seg, 2))
                THEN <<NoneFloat, NoneFloat>>
                ELSE <<NumericValue(Token(seg, 1)), NumericValue(Token(seg, 2))>>

\* C15: extract_coordinates_from_url returns, without raising, the floats of
\* the first two comma-separated tokens of the path segment after the last
\* "/@" of the URL, in that order, and (None, None) for a URL with no such
\* segment, with fewer than two tokens in it, or with a token among the first
\* two that float() does not read as a number.
C15_CoordinatesParsed == call.returned => call.coordinates = CoordinatesOf(call.url)

\* C15 witness: the call for ".../@40.7128,-74.0060,15z" has returned
\* (40.7128, -74.006).
C15_Witness ==
  /\ call.returned /\ Markers(call.url) # {}
  /\ AtSegment(call.url) =
       <<"4", "0", ".", "7", "1", "2", "8", ",", "-", "7", "4", ".", "0", "0", "6", "0", ",", "1", "5", "z">>
  /\ call.coordinates = <<Float(407128, 10000), Float(-74006, 1000)>>

\* the step of a search that times out
TimeoutStep == pc = "search" /\ status_text' = "Timeout"

\* the state a timed-out search leaves: back at the loop test of its category
AfterTimeout == pc = "while_locations" /\ status_text = "Timeout" /\ drawn # <<>>

Elements(l) == {l[i] : i \in 1..Len(l)}

\* C16 as stated: a search that times out focuses and accepts nothing, its
\* location is out of the pool for good, and the next iteration draws a
\* different location, or ends the category when the pool is empty.
C16_TimedOutLocationNeverSearchedAgain ==
  [][/\ TimeoutStep =>
          /\ focused' = {} /\ accepted' = accepted /\ Buffer' = Buffer
          /\ listings_scraped' = listings_scraped
          /\ selected \notin Elements(cities_states_copy')
     /\ AfterTimeout =>
          IF cities_states_copy = <<>> THEN pc' = "flush"
          ELSE pc' = "search" /\ selected' # selected]_vars

\* C16: a search that times out focuses and accepts nothing; the list entry
\* drawn for it is out of the pool, which holds the location once less than
\* the supplied list for each time it was drawn; the next iteration draws one
\* of the remaining entries, a different location when the supplied list
\* holds the timed-out one once, or ends the category when the pool is empty.
C16_TimedOutEntryRemoved ==
  [][/\ TimeoutStep =>
          /\ focused' = {} /\ accepted' = accepted /\ Buffer' = Buffer
          /\ listings_scraped' = listings_scraped
          /\ Count(cities_states_copy', selected) =
               Count(cities_states, selected) - Count(drawn, selected)
          /\ Len(cities_states_copy') = Len(cities_states) - Len(drawn)
     /\ AfterTimeout =>
          IF cities_states_copy = <<>> THEN pc' = "flush"
          ELSE /\ pc' = "search"
               /\ selected' \in Elements(cities_states_copy)
               /\ Count(cities_states, selected) = 1 => selected' # selected]_vars

\* C16 witness: a search timed out with nothing accepted, its location is
\* out of the pool and another one is left to draw.
C16_Witness ==
  /\ AfterTimeout /\ accepted = <<>> /\ focused = {}
  /\ cities_states_copy # <<>> /\ selected \notin Elements(cities_states_copy)

\* a step that clicks a listing: the click and the reads succeed, or one of
\* them raises
ClickStep == pc = "for_listing" /\ (idx' = idx + 1 \/ pc' = "raised")

\* C17: every click on a listing happens in a state where the category's
\* count of accepted records is strictly below the quota.
C17_ClickOnlyBelowQuota ==
  [][ClickStep => Len(Buffer) < num_listings /\ listings_scraped < num_listings]_vars

\* C17 witness: the quota was met in the middle of a pass and the next
\* listing of the pass has not been clicked.
C17_Witness ==
  /\ pc = "for_listing" /\ idx <= Len(listings) /\ idx \notin focused
  /\ focused # {} /\ Len(Buffer) = num_listings

\* a search ended on the end-of-list marker with the quota unmet
EndedOnMarker ==
  pc = "while_locations" /\ panel # <<>> /\ listings_scraped < num_listings

\* C18: when a search ends on the end-of-list marker with the quota unmet,
\* every listing in the panel at that moment has been clicked and offered to
\* add_business during the search.
C18_EveryListingOffered == EndedOnMarker => focused = 1..Len(panel)

\* C19: scrape_businesses never changes the location list it is given: the
\* draws shrink the category's copy only, and every category starts with the
\* whole list in its pool whatever the earlier categories drew.
C19_SuppliedListUntouched ==
  /\ [][cities_states' = cities_states]_vars
  /\ [](pc = "while_locations" /\ drawn = <<>> => cities_states_copy = cities_states)

\* C19 witness: the second category starts with the two supplied locations
\* after the first category drew from its pool and had a record written.
C19_Witness ==
  /\ cat = 2 /\ pc = "while_locations" /\ drawn = <<>>
  /\ Len(cities_states) = 2 /\ cities_states_copy = cities_states
  /\ writes = 1

====
